---- MODULE Spec2Model ----
(***************************************************************************)
(* SnapPosition: the MouseLogger of src/src/logger.py.                     *)
(*                                                                         *)
(* Two kinds of threads act on one MouseLogger object:                     *)
(*   - the consumer thread (the Streamlit script of src/app.py) calls      *)
(*     start(), stop(), get_data() and clear_data();                       *)
(*   - each pynput listener thread created by start() runs the callbacks   *)
(*     _on_move and _on_click, one notification at a time.                 *)
(* Only the accesses to _data are made under _lock; the timing fields      *)
(* _last_position, _last_timestamp and _last_sample_time are read and      *)
(* written outside it, so the callbacks and the multi-statement calls are  *)
(* modelled statement by statement.                                        *)
(*                                                                         *)
(* Time is counted in ticks of 0.01 s, speed in hundredths of a pixel per  *)
(* second (the code rounds speed to two decimals).                         *)
(*                                                                         *)
(* The aggregator of src/src/processor.py and the classifier of            *)
(* src/src/visualizer.py are functions of their arguments; they follow     *)
(* the logger, each with the specification that applies it to its inputs.  *)
(***************************************************************************)
EXTENDS Integers, Sequences, FiniteSets, TLC

\* sample_rate = 0.05 s, in ticks
SampleRate == 5

\* value of time.time() when the logger is constructed (ticks); the epoch
\* clock is far from 0, which the code uses as "no sample yet"
StartTime == 100000000
\* the instants at which the clock is read, in ticks after StartTime:
\* 0.01 s (inside the sample interval) and 0.05 s (the interval)
Instants == {0, 1, SampleRate}
\* notifications the callbacks accept (each appends one event)
MaxEvents == 2
\* calls the consumer makes
MaxCalls == 3
\* listener threads that may be alive at the same time
MaxListeners == 2

\* pointer positions the platform reports (pairwise integer distances)
Points == {<<0, 0>>, <<300, 400>>}

Listeners == 1..MaxListeners
NoListener == 0

VARIABLES
    now,               \* time.time()
    data,              \* contents of the list self._data refers to
    is_running,        \* self._is_running
    listener,          \* self._listener (NoListener = None)
    last_sample_time,  \* self._last_sample_time
    last_position,     \* self._last_position
    last_timestamp,    \* self._last_timestamp
    lst,               \* state of each listener thread
    cb,                \* the callback each listener thread is executing
    cpc,               \* position of the consumer thread inside a call
    snap,              \* the list the last get_data() returned
    snapTaken,         \* history: the buffer contents when get_data() ran
    last,              \* history: the last call or notification handled
    calls,             \* history: calls the consumer has made
    taken,             \* history: notifications accepted so far
    late,              \* history: a stop() has left a callback running
    session,           \* history: the start() call that created each listener
    origin,            \* history: the session of the listener that appended each event
    agg                \* the aggregator's input and what it computed from it

vars == <<now, data, is_running, listener, last_sample_time, last_position,
          last_timestamp, lst, cb, cpc, snap, snapTaken, last, calls, taken,
          late, agg, session, origin>>

timing == <<last_sample_time, last_position, last_timestamp>>

IdleCb == [pc |-> "idle", click |-> FALSE, pos |-> <<0, 0>>, t |-> 0, speed |-> 0]

--------------------------------------------------------------------------
(* Arithmetic of _calculate_speed *)

Min(a, b) == IF a <= b THEN a ELSE b

RECURSIVE SqrtIter(_, _, _)
SqrtIter(n, lo, hi) ==
    IF lo >= hi THEN lo
    ELSE LET mid == (lo + hi + 1) \div 2
         IN  IF mid * mid <= n THEN SqrtIter(n, mid, hi)
                               ELSE SqrtIter(n, lo, mid - 1)

\* math.sqrt on the squared distances the model produces (perfect squares)
ISqrt(n) == SqrtIter(n, 0, Min(n, 46340))

\* round(a / b) for a >= 0, b > 0, ties to even as Python's round
RoundDiv(a, b) ==
    LET q == a \div b
        r == a % b
    IN  IF 2 * r < b THEN q
        ELSE IF 2 * r > b THEN q + 1
        ELSE IF q % 2 = 0 THEN q ELSE q + 1

Distance(p, q) ==
    LET dx == q[1] - p[1]
        dy == q[2] - p[2]
    IN  ISqrt(dx * dx + dy * dy)

\* a _calculate_speed that returns the distance, not divided by the time
CalculateSpeedNoTime(p, t, lts, lpos) ==
    IF lts = 0 THEN 0
    ELSE IF t - lts <= 0 THEN 0
    ELSE Distance(lpos, p) * 100

\* round(speed, 2) of _calculate_speed, in hundredths of px/s, from the
\* values of _last_timestamp and _last_position it reads
CalculateSpeed(p, t, lts, lpos) ==
    IF lts = 0 THEN 0
    ELSE IF t - lts <= 0 THEN 0
    ELSE RoundDiv(Distance(lpos, p) * 100 * 100, t - lts)

--------------------------------------------------------------------------
(* Conditions of the code *)

\* a rate limit that also drops a move arriving exactly at the interval
RateLimitedInclusive(t) == t - last_sample_time <= SampleRate

\* _on_move: the rate limit
RateLimited(t) == t - last_sample_time < SampleRate

\* an _on_click that tests the flag the wrong way round
ClickIgnoredInverted(pressed) == pressed

\* _on_click: releases are ignored
ClickIgnored(pressed) == ~pressed

\* a start() without its guard
StartNeverNoop == FALSE

\* start(): already running
StartIsNoop == is_running

\* a stop() without its guard
StopNeverNoop == FALSE

\* stop(): not running
StopIsNoop == ~is_running

\* is_running()
IsRunning == is_running

\* event_count
EventCount == Len(data)

\* the dict built by _on_move / _on_click
Event(c) == [x |-> c.pos[1], y |-> c.pos[2], speed |-> c.speed,
             click |-> c.click, timestamp |-> c.t]

\* a get_data() that returns self._data itself
GetDataAlias == [alias |-> TRUE, val |-> data]

\* get_data(): a new list with the buffer's items (alias: the result is
\* the buffer's own list object)
GetDataResult == [alias |-> FALSE, val |-> data]

\* the items of the list a get_data() result refers to
SnapContents == IF snap.alias THEN data ELSE snap.val

\* a slot for a new listener thread
FreeSlots == {i \in Listeners : lst[i] = "none"}

\* the aggregator has been handed nothing
NoAgg == [stage |-> "idle", data |-> << >>, grid_size |-> 0, result |-> << >>,
          top_n |-> 0, zones |-> << >>, stats |-> << >>, traits |-> << >>]

--------------------------------------------------------------------------
\* MouseLogger.__init__
InitLogger ==
    /\ now = StartTime
    /\ data = << >>
    /\ is_running = FALSE
    /\ listener = NoListener
    /\ last_sample_time = 0
    /\ last_position = <<0, 0>>
    /\ last_timestamp = 0
    /\ lst = [i \in Listeners |-> "none"]
    /\ cb = [i \in Listeners |-> IdleCb]
    /\ cpc = "idle"
    /\ snap = [alias |-> FALSE, val |-> << >>]
    /\ snapTaken = << >>
    /\ last = "none"
    /\ calls = 0
    /\ taken = 0
    /\ late = FALSE
    /\ session = [i \in Listeners |-> 0]
    /\ origin = << >>

Init ==
    /\ InitLogger
    /\ agg = NoAgg

\* the clock advances
Tick ==
    /\ \E d \in Instants :
          /\ StartTime + d > now
          /\ now' = StartTime + d
    /\ UNCHANGED <<data, is_running, listener, timing, lst, cb, cpc, snap,
                   snapTaken, last, calls, taken,
                   late, agg, session, origin>>

--------------------------------------------------------------------------
(* Listener thread i *)

CanDeliver(i) == lst[i] = "running" /\ cb[i].pc = "idle"

\* _on_move, entry: read the clock, apply the rate limit
OnMove(i) ==
    /\ CanDeliver(i)
    /\ \E p \in Points :
          IF RateLimited(now)
          THEN /\ last' = "move_dropped"
               /\ taken' = taken
               /\ cb' = cb
          ELSE /\ taken < MaxEvents
               /\ taken' = taken + 1
               /\ last' = "move_taken"
               /\ cb' = [cb EXCEPT ![i] = [pc |-> "calc", click |-> FALSE,
                                           pos |-> p, t |-> now, speed |-> 0]]
    /\ UNCHANGED <<now, data, is_running, listener, timing, lst, cpc, snap,
                   snapTaken, calls,
                   late, agg, session, origin>>

\* _on_click, entry: ignore a release, read the clock on a press
OnClick(i) ==
    /\ CanDeliver(i)
    /\ \E p \in Points, pressed \in BOOLEAN :
          IF ClickIgnored(pressed)
          THEN /\ last' = IF pressed THEN "press_ignored" ELSE "release_ignored"
               /\ taken' = taken
               /\ cb' = cb
          ELSE /\ taken < MaxEvents
               /\ taken' = taken + 1
               /\ last' = IF pressed THEN "press_taken" ELSE "release_taken"
               /\ cb' = [cb EXCEPT ![i] = [pc |-> "calc", click |-> TRUE,
                                           pos |-> p, t |-> now, speed |-> 0]]
    /\ UNCHANGED <<now, data, is_running, listener, timing, lst, cpc, snap,
                   snapTaken, calls,
                   late, agg, session, origin>>

\* speed = self._calculate_speed(x, y, current_time)
CalcSpeed(i) ==
    /\ cb[i].pc = "calc"
    /\ cb' = [cb EXCEPT ![i].pc = "append",
                        ![i].speed = CalculateSpeed(cb[i].pos, cb[i].t,
                                                    last_timestamp, last_position)]
    /\ UNCHANGED <<now, data, is_running, listener, timing, lst, cpc, snap,
                   snapTaken, last, calls, taken,
                   late, agg, session, origin>>

\* with self._lock: self._data.append(event)
AppendEvent(i) ==
    /\ cb[i].pc = "append"
    /\ data' = Append(data, Event(cb[i]))
    /\ origin' = Append(origin, session[i])
    /\ cb' = [cb EXCEPT ![i].pc = "pos"]
    /\ UNCHANGED <<now, is_running, listener, timing, lst, cpc, snap,
                   snapTaken, last, calls, taken,
                   late, agg, session>>

\* self._last_position = (x, y)
SetPosition(i) ==
    /\ cb[i].pc = "pos"
    /\ last_position' = cb[i].pos
    /\ cb' = [cb EXCEPT ![i].pc = "ts"]
    /\ UNCHANGED <<now, data, is_running, listener, last_sample_time,
                   last_timestamp, lst, cpc, snap, snapTaken, last, calls, taken,
                   late, agg, session, origin>>

\* the callback returns; a listener that was asked to stop ends
Return(i) ==
    /\ cb' = [cb EXCEPT ![i] = IdleCb]
    /\ lst' = IF lst[i] = "stopped" THEN [lst EXCEPT ![i] = "none"] ELSE lst

\* self._last_timestamp = current_time (the last statement of _on_click)
SetTimestamp(i) ==
    /\ cb[i].pc = "ts"
    /\ last_timestamp' = cb[i].t
    /\ IF cb[i].click
       THEN Return(i)
       ELSE /\ cb' = [cb EXCEPT ![i].pc = "st"]
            /\ lst' = lst
    /\ UNCHANGED <<now, data, is_running, listener, last_sample_time,
                   last_position, cpc, snap, snapTaken, last, calls, taken,
                   late, agg, session, origin>>

\* self._last_sample_time = current_time (the last statement of _on_move)
SetSampleTime(i) ==
    /\ cb[i].pc = "st"
    /\ last_sample_time' = cb[i].t
    /\ Return(i)
    /\ UNCHANGED <<now, data, is_running, listener, last_position,
                   last_timestamp, cpc, snap, snapTaken, last, calls, taken,
                   late, agg, session, origin>>

--------------------------------------------------------------------------
(* Consumer thread *)

\* start(): the guard and self._is_running = True
StartCall ==
    /\ cpc = "idle"
    /\ calls < MaxCalls
    /\ calls' = calls + 1
    /\ IF StartIsNoop
       THEN /\ last' = "start_noop"
            /\ UNCHANGED <<is_running, cpc>>
       ELSE /\ FreeSlots # {}
            /\ is_running' = TRUE
            /\ cpc' = "start_ts"
            /\ last' = "start_call"
    /\ UNCHANGED <<now, data, listener, timing, lst, cb, snap, snapTaken, taken,
                   late, agg, session, origin>>

\* self._last_timestamp = 0
StartResetTimestamp ==
    /\ cpc = "start_ts"
    /\ last_timestamp' = 0
    /\ cpc' = "start_st"
    /\ UNCHANGED <<now, data, is_running, listener, last_sample_time,
                   last_position, lst, cb, snap, snapTaken, last, calls, taken,
                   late, agg, session, origin>>

\* self._last_sample_time = 0
StartResetSampleTime ==
    /\ cpc = "start_st"
    /\ last_sample_time' = 0
    /\ cpc' = "start_new"
    /\ UNCHANGED <<now, data, is_running, listener, last_position,
                   last_timestamp, lst, cb, snap, snapTaken, last, calls, taken,
                   late, agg, session, origin>>

\* self._listener = mouse.Listener(...): the listener is created, or the
\* constructor raises and start() is left with the exception
StartCreateListener ==
    /\ cpc = "start_new"
    /\ \/ \E i \in FreeSlots :
             /\ i = CHOOSE j \in FreeSlots : \A k \in FreeSlots : j <= k
             /\ lst' = [lst EXCEPT ![i] = "created"]
             /\ listener' = i
             /\ session' = [session EXCEPT ![i] = calls]
             /\ cpc' = "start_run"
             /\ last' = last
       \/ /\ cpc' = "idle"
          /\ last' = "start_raised"
          /\ UNCHANGED <<lst, listener, session>>
    /\ UNCHANGED <<now, data, is_running, timing, cb, snap, snapTaken, calls, taken,
                   late, agg, origin>>

\* self._listener.start(): the thread starts, or Thread.start() raises
StartListenerThread ==
    /\ cpc = "start_run"
    /\ \/ /\ lst' = [lst EXCEPT ![listener] = "running"]
          /\ last' = "start"
       \/ /\ last' = "start_raised"
          /\ lst' = lst
    /\ cpc' = "idle"
    /\ UNCHANGED <<now, data, is_running, listener, timing, cb, snap, snapTaken, calls, taken,
                   late, agg, session, origin>>

\* stop(): the guard and self._is_running = False
StopCall ==
    /\ cpc = "idle"
    /\ calls < MaxCalls
    /\ calls' = calls + 1
    /\ IF StopIsNoop
       THEN /\ last' = "stop_noop"
            /\ UNCHANGED <<is_running, cpc>>
       ELSE /\ is_running' = FALSE
            /\ cpc' = "stop_l"
            /\ last' = "stop_call"
    /\ UNCHANGED <<now, data, listener, timing, lst, cb, snap, snapTaken, taken,
                   late, agg, session, origin>>

\* if self._listener: self._listener.stop(); self._listener = None
\* Listener.stop() asks the thread to end and returns: it delivers no new
\* notification, and a callback it is executing runs to its end
StopListener ==
    /\ cpc = "stop_l"
    /\ IF listener # NoListener
       THEN /\ lst' = [lst EXCEPT ![listener] =
                          IF cb[listener].pc = "idle" THEN "none" ELSE "stopped"]
            /\ listener' = NoListener
       ELSE UNCHANGED <<lst, listener>>
    /\ late' = (late \/ (listener # NoListener /\ cb[listener].pc # "idle"))
    /\ cpc' = "idle"
    /\ last' = "stop"
    /\ UNCHANGED <<now, data, is_running, timing, cb, snap, snapTaken, calls, taken,
                   agg, session, origin>>

\* get_data(): with self._lock: return list(self._data)
GetData ==
    /\ cpc = "idle"
    /\ calls < MaxCalls
    /\ calls' = calls + 1
    /\ snap' = GetDataResult
    /\ snapTaken' = data
    /\ last' = "get_data"
    /\ UNCHANGED <<now, data, is_running, listener, timing, lst, cb, cpc, taken,
                   late, agg, session, origin>>

\* clear_data(): with self._lock: self._data = []
\* the name is bound to a new list; a list handed out before keeps its items
ClearCall ==
    /\ cpc = "idle"
    /\ calls < MaxCalls
    /\ calls' = calls + 1
    /\ data' = << >>
    /\ origin' = << >>
    /\ snap' = [alias |-> FALSE, val |-> SnapContents]
    /\ cpc' = "clear_ts"
    /\ last' = "clear_call"
    /\ UNCHANGED <<now, is_running, listener, timing, lst, cb, snapTaken, taken,
                   late, agg, session>>

\* self._last_timestamp = 0
ClearTimestamp ==
    /\ cpc = "clear_ts"
    /\ last_timestamp' = 0
    /\ cpc' = "clear_pos"
    /\ UNCHANGED <<now, data, is_running, listener, last_sample_time,
                   last_position, lst, cb, snap, snapTaken, last, calls, taken,
                   late, agg, session, origin>>

\* self._last_position = (0, 0)
ClearPosition ==
    /\ cpc = "clear_pos"
    /\ last_position' = <<0, 0>>
    /\ cpc' = "idle"
    /\ last' = "clear"
    /\ UNCHANGED <<now, data, is_running, listener, last_sample_time,
                   last_timestamp, lst, cb, snap, snapTaken, calls, taken,
                   late, agg, session, origin>>

--------------------------------------------------------------------------
ListenerStep(i) ==
    \/ OnMove(i)
    \/ OnClick(i)
    \/ CalcSpeed(i)
    \/ AppendEvent(i)
    \/ SetPosition(i)
    \/ SetTimestamp(i)
    \/ SetSampleTime(i)

Next ==
    \/ Tick
    \/ \E i \in Listeners : ListenerStep(i)
    \/ StartCall
    \/ StartResetTimestamp
    \/ StartResetSampleTime
    \/ StartCreateListener
    \/ StartListenerThread
    \/ StopCall
    \/ StopListener
    \/ GetData
    \/ ClearCall
    \/ ClearTimestamp
    \/ ClearPosition

Spec == Init /\ [][Next]_vars

--------------------------------------------------------------------------
(* Steps of the model, as the properties below name them *)

\* the consumer enters a call in this step
CallStep == calls' = calls + 1

\* the consumer executes a statement of clear_data() in this step
ClearStep ==
    \/ CallStep /\ last' = "clear_call"
    \/ cpc = "clear_ts" /\ cpc' = "clear_pos"
    \/ cpc = "clear_pos" /\ cpc' = "idle"

\* stop() has returned and start() has not been called since
Stopped == ~IsRunning /\ cpc = "idle"

\* listener threads that exist and were not asked to stop
LiveListeners == {i \in Listeners : lst[i] \in {"created", "running"}}

--------------------------------------------------------------------------
(* C1: stop() is synchronous: once stop() has returned, no callback   *)
(* appends an event, so the buffer does not grow until the next start(). *)
C1_StopIsSynchronous ==
    [][Stopped => Len(data') <= Len(data)]_vars

(* C2: a start() that fails (the listener cannot be created or started) *)
(* leaves is_running() false and holds no listener.                      *)
C2_FailedStartLeavesStateUnchanged ==
    (last = "start_raised" /\ cpc = "idle")
        => (~IsRunning /\ listener = NoListener)

C4_StopClearNoop ==
    /\ [][(CallStep /\ ~IsRunning /\ last' \in {"stop_noop", "stop_call"})
            => /\ cpc' = "idle"
               /\ UNCHANGED <<is_running, listener, lst, cb, timing, data>>]_vars
    /\ [][(CallStep /\ last' = "clear_call" /\ EventCount = 0)
            => (data' = << >> /\ EventCount' = 0)]_vars
    /\ [][(ClearStep /\ data = << >> /\ last_timestamp = 0
                      /\ last_position = <<0, 0>>)
            => UNCHANGED <<is_running, listener, lst, cb, timing, data>>]_vars

\* clear_data() has returned on a buffer that never held an event, the
\* logger being stopped
C4_Witness ==
    /\ last = "clear"
    /\ taken = 0
    /\ calls > 1
    /\ Stopped
    /\ EventCount = 0

(* C5: a start() that begins listening has reset last-sample time, last  *)
(* position and last timestamp to their initial values when it returns   *)
(* (stated for the runs in which every stop() found its listener         *)
(* between two callbacks).                                               *)
C5_StartResetsTiming ==
    (last = "start" /\ ~late)
        => /\ last_sample_time = 0
           /\ last_position = <<0, 0>>
           /\ last_timestamp = 0

(* C6: a move arriving less than the sample interval after the last     *)
(* accepted move sample is discarded: nothing is appended and the timing *)
(* state is unchanged; a move at or beyond the interval is accepted and  *)
(* appends exactly one event with click = FALSE.                         *)
C6_RateLimit ==
    /\ [][(last' = "move_dropped" /\ last # "move_dropped")
            => /\ now - last_sample_time < SampleRate
               /\ UNCHANGED <<data, timing, cb, lst>>]_vars
    /\ [][(last' = "move_taken" /\ taken' = taken + 1)
            => /\ now - last_sample_time >= SampleRate
               /\ \E i \in Listeners :
                     /\ cb[i].pc = "idle"
                     /\ cb'[i].pc = "calc"
                     /\ ~cb'[i].click
                     /\ cb'[i].t = now
                     /\ \A j \in Listeners \ {i} : cb'[j] = cb[j]
               /\ UNCHANGED <<data, timing>>]_vars
    /\ [][\A i \in Listeners :
            (cb[i].pc = "append" /\ cb'[i].pc # "append")
            => /\ Len(data') = Len(data) + 1
               /\ SubSeq(data', 1, Len(data)) = data
               /\ data'[Len(data')].click = cb[i].click
               /\ data'[Len(data')].timestamp = cb[i].t
               /\ data'[Len(data')].x = cb[i].pos[1]
               /\ data'[Len(data')].y = cb[i].pos[2]]_vars
    /\ [][Len(data') > Len(data)
            => \E i \in Listeners : cb[i].pc = "append" /\ cb'[i].pc = "pos"]_vars

\* one move was recorded and a second move 0.01 s later was discarded
C6_Witness ==
    /\ last = "move_dropped"
    /\ Len(data) = 1
    /\ ~data[1].click
    /\ last_sample_time = data[1].timestamp
    /\ now = data[1].timestamp + 1

(* C7: every press is accepted, whatever the time since the last sample, *)
(* and appends one event with click = TRUE; every release is ignored     *)
(* and changes no state.                                                 *)
C7_ClicksNeverDropped ==
    /\ [](last \notin {"press_ignored", "release_taken"})
    /\ [][(last' = "press_taken" /\ taken' = taken + 1)
            => /\ \E i \in Listeners :
                     /\ cb[i].pc = "idle"
                     /\ cb'[i].pc = "calc"
                     /\ cb'[i].click
                     /\ cb'[i].t = now
                     /\ \A j \in Listeners \ {i} : cb'[j] = cb[j]
               /\ UNCHANGED <<data, timing>>]_vars
    /\ [][(last' = "release_ignored" /\ last # "release_ignored")
            => UNCHANGED <<data, timing, cb, lst>>]_vars
    /\ [][\A i \in Listeners :
            (cb[i].pc = "append" /\ cb'[i].pc # "append" /\ cb[i].click)
            => /\ Len(data') = Len(data) + 1
               /\ data'[Len(data')].click]_vars

\* a press was recorded although it came in the same tick as the sample
\* before it, inside the sample interval
C7_Witness ==
    /\ Len(data) = 2
    /\ data[2].click
    /\ data[2].timestamp = data[1].timestamp
    /\ ~data[1].click
    /\ last_sample_time = data[1].timestamp

\* s is distance(p, q) / dt px/s rounded to hundredths, dt in ticks:
\* the distance d has d * d = dx * dx + dy * dy, and s lies within half a
\* hundredth of 100 * d / (dt / 100)
IsSpeedOf(s, p, q, dt) ==
    \E d \in 0..1000 :
        /\ d * d = (q[1] - p[1]) * (q[1] - p[1]) + (q[2] - p[2]) * (q[2] - p[2])
        /\ 2 * (s * dt - 10000 * d) <= dt
        /\ 2 * (10000 * d - s * dt) <= dt

(* C8: the speed of an event is 0 when there is no prior accepted sample *)
(* (last timestamp 0) or the elapsed time since it is <= 0; otherwise it *)
(* is distance(last position, position) / elapsed time, to two decimals. *)
(* No speed, recorded or about to be, is negative.                       *)
C8_SpeedGuard ==
    /\ [](/\ \A k \in 1..Len(data) : data[k].speed >= 0
          /\ \A i \in Listeners : cb[i].speed >= 0)
    /\ [][\A i \in Listeners :
            (cb[i].pc = "calc" /\ cb'[i].pc = "append")
            => IF last_timestamp = 0 \/ cb[i].t - last_timestamp <= 0
               THEN cb'[i].speed = 0
               ELSE IsSpeedOf(cb'[i].speed, last_position, cb[i].pos,
                              cb[i].t - last_timestamp)]_vars

\* a first event with speed 0, then 500 px covered in 0.05 s: 10000 px/s
C8_Witness ==
    /\ Len(data) = 2
    /\ data[1].speed = 0
    /\ data[2].timestamp = data[1].timestamp + SampleRate
    /\ data[2].speed = 1000000

(* C9: the timestamps of the events in the buffer are non-decreasing in  *)
(* buffer order, in every reachable state.                               *)
C9_TimestampsNonDecreasing ==
    \A k \in 1..(Len(data) - 1) : data[k].timestamp <= data[k + 1].timestamp

(* C10: the list get_data() returned holds the buffer contents of the    *)
(* instant of the call, and no later append or clear_data() changes it.  *)
C10_SnapshotIndependent ==
    SnapContents = snapTaken

\* a snapshot of one event, taken while the listener runs; the buffer has
\* grown since
C10_Witness ==
    /\ Len(snapTaken) = 1
    /\ Len(data) = 2
    /\ SnapContents = <<data[1]>>
    /\ IsRunning

--------------------------------------------------------------------------
(***************************************************************************)
(* The aggregator of src/src/processor.py.                                 *)
(*                                                                         *)
(* process_data and get_hesitation_zones are functions of the event list   *)
(* they are handed.  A 2-D array is a record of its shape and its items,   *)
(* indexed <<row, column>> as hesitation_map[y, x]; np.array([]) is the    *)
(* array of size 0.  Dwell is counted in ticks, as the timestamps are.     *)
(***************************************************************************)

\* padding = 50
Padding == 50
\* event["speed"] < 100, in hundredths of px/s
HesitationSpeed == 10000
\* _detect_acceleration(data, threshold=500), in hundredths of px/s
AccelerationThreshold == 50000
\* "bounds": (0, 0, 1920, 1080) of the empty stream
DefaultBounds == <<0, 0, 1920, 1080>>

Max(a, b) == IF a >= b THEN a ELSE b

\* int(a / b) for b > 0: the quotient, truncated towards zero
TruncDiv(a, b) == IF a >= 0 THEN a \div b ELSE -((-a) \div b)

RECURSIVE SeqSum(_)
SeqSum(s) == IF Len(s) = 0 THEN 0 ELSE s[1] + SeqSum(Tail(s))

SetMin(S) == CHOOSE m \in S : \A n \in S : m <= n
SetMax(S) == CHOOSE m \in S : \A n \in S : m >= n

\* np.array([])
EmptyArray == [shape |-> <<0>>, at |-> [c \in {} |-> 0]]

\* hesitation_map.size
Size(a) == Cardinality(DOMAIN a.at)

\* (min_x, min_y, max_x, max_y) of a non-empty stream, padded
Bounds(d) ==
    LET xs == {d[k].x : k \in 1..Len(d)}
        ys == {d[k].y : k \in 1..Len(d)}
    IN  <<Max(0, SetMin(xs) - Padding), Max(0, SetMin(ys) - Padding),
          SetMax(xs) + Padding, SetMax(ys) + Padding>>

\* grid_width = max(1, int((max_x - min_x) / grid_size) + 1)
GridWidth(b, g) == Max(1, TruncDiv(b[3] - b[1], g) + 1)
\* grid_height = max(1, int((max_y - min_y) / grid_size) + 1)
GridHeight(b, g) == Max(1, TruncDiv(b[4] - b[2], g) + 1)

\* an index used as it was computed, not brought into the grid
ClampNone(i, n) == i

\* max(0, min(grid_x, grid_width - 1))
Clamp(i, n) == Max(0, Min(i, n - 1))

\* (grid_y, grid_x) of event e in the grid of stream d
CellOf(e, d, g) ==
    LET b == Bounds(d)
    IN  <<Clamp(TruncDiv(e.y - b[2], g), GridHeight(b, g)),
          Clamp(TruncDiv(e.x - b[1], g), GridWidth(b, g))>>

\* the cells of np.zeros((grid_height, grid_width))
Cells(d, g) ==
    LET b == Bounds(d)
    IN  (0..(GridHeight(b, g) - 1)) \X (0..(GridWidth(b, g) - 1))

\* what the loop adds to the hesitation cell of event k: the time since the
\* event before it, when there is one and event k is slow
DwellAdded(d, k) ==
    IF k > 1 /\ d[k].speed < HesitationSpeed
    THEN d[k].timestamp - d[k - 1].timestamp
    ELSE 0

\* heatmap after the loop
Heatmap(d, g) ==
    LET b == Bounds(d)
        cell == [k \in 1..Len(d) |-> CellOf(d[k], d, g)]
    IN  [shape |-> <<GridHeight(b, g), GridWidth(b, g)>>,
         at |-> [c \in Cells(d, g) |->
                   SeqSum([k \in 1..Len(d) |-> IF cell[k] = c THEN 1 ELSE 0])]]

\* hesitation_map after the loop
HesitationMap(d, g) ==
    LET b == Bounds(d)
        cell == [k \in 1..Len(d) |-> CellOf(d[k], d, g)]
    IN  [shape |-> <<GridHeight(b, g), GridWidth(b, g)>>,
         at |-> [c \in Cells(d, g) |->
                   SeqSum([k \in 1..Len(d) |->
                             IF cell[k] = c THEN DwellAdded(d, k) ELSE 0])]]

IsClick(e) == e.click
Point(e) == <<e.x, e.y>>

\* click_points and path_points
ClickPoints(d) ==
    LET clicks == SelectSeq(d, IsClick)
    IN  [k \in 1..Len(clicks) |-> Point(clicks[k])]
PathPoints(d) == [k \in 1..Len(d) |-> Point(d[k])]

\* _empty_stats()
EmptyStats ==
    [total_events |-> 0, total_clicks |-> 0, avg_speed |-> 0, max_speed |-> 0,
     min_speed |-> 0, speed_std |-> 0, total_distance |-> 0, duration |-> 0,
     acceleration_bursts |-> 0]

\* a duration counted from the epoch, not from the first event
DurationFromEpoch(d) == d[Len(d)].timestamp

\* duration = data[-1]["timestamp"] - data[0]["timestamp"] if len(data) >= 2 else 0
Duration(d) ==
    IF Len(d) >= 2 THEN d[Len(d)].timestamp - d[1].timestamp ELSE 0

\* total_distance: the sum of the distances between consecutive events
TotalDistance(d) ==
    SeqSum([k \in 1..(Len(d) - 1) |-> Distance(Point(d[k]), Point(d[k + 1]))])

\* _detect_acceleration: the indices whose speed differs from the speed
\* before by more than the threshold (indices from 0, as the code's)
DetectAcceleration(d) ==
    LET Burst(k) == (IF d[k].speed >= d[k - 1].speed
                     THEN d[k].speed - d[k - 1].speed
                     ELSE d[k - 1].speed - d[k].speed) > AccelerationThreshold
        RECURSIVE From(_)
        From(k) == IF k > Len(d) THEN << >>
                   ELSE IF Burst(k) THEN <<k - 1>> \o From(k + 1)
                   ELSE From(k + 1)
    IN  From(2)

\* _calculate_stats(data, speeds) and the acceleration_bursts entry added by
\* process_data.  avg_speed is the mean to the hundredth below; speed_std,
\* a square root of a mean, is left out: nothing below reads it
CalculateStats(d) ==
    LET speeds == [k \in 1..Len(d) |-> d[k].speed]
        range == {speeds[k] : k \in 1..Len(d)}
    IN  [total_events |-> Len(d),
         total_clicks |-> Len(SelectSeq(d, IsClick)),
         avg_speed |-> SeqSum(speeds) \div Len(d),
         max_speed |-> SetMax(range),
         min_speed |-> SetMin(range),
         total_distance |-> TotalDistance(d),
         duration |-> Duration(d),
         acceleration_bursts |-> Len(DetectAcceleration(d))]

\* process_data(data, grid_size)
ProcessData(d, g) ==
    IF Len(d) = 0
    THEN [heatmap |-> EmptyArray, hesitation_map |-> EmptyArray,
          click_points |-> << >>, path_points |-> << >>,
          stats |-> EmptyStats, grid_size |-> g, bounds |-> DefaultBounds]
    ELSE [heatmap |-> Heatmap(d, g), hesitation_map |-> HesitationMap(d, g),
          click_points |-> ClickPoints(d), path_points |-> PathPoints(d),
          stats |-> CalculateStats(d), grid_size |-> g, bounds |-> Bounds(d)]

\* np.unravel_index(idx, shape): (y, x) of a flattened index, row by row
Unravel(idx, shape) == <<idx \div shape[2], idx % shape[2]>>

\* hesitation_map.flatten()
Flatten(a) == [idx \in 0..(Size(a) - 1) |-> a.at[Unravel(idx, a.shape)]]

\* np.argsort(flat)[::-1][:top_n]: the indices of the n largest items, the
\* largest first.  np.argsort's default sort is not stable: items that are
\* equal come in an order numpy does not define, so this is the set of the
\* index lists it can produce
RECURSIVE TopIndices(_, _, _)
TopIndices(flat, rest, n) ==
    IF n = 0 \/ rest = {} THEN {<< >>}
    ELSE LET top == {i \in rest : \A j \in rest : flat[i] >= flat[j]}
         IN  UNION {{<<i>> \o s : s \in TopIndices(flat, rest \ {i}, n - 1)} :
                    i \in top}

\* (x, y, float(dwell)) of a flattened index
ZoneOf(idx, a) ==
    LET yx == Unravel(idx, a.shape)
    IN  <<yx[2], yx[1], a.at[yx]>>

\* a filter that lets the cells without dwell through
HasDwellOrNone(z) == z[3] >= 0

\* if dwell > 0
HasDwell(z) == z[3] > 0

\* the zones list built from the chosen indices
ZonesOf(picks, a) ==
    SelectSeq([k \in 1..Len(picks) |-> ZoneOf(picks[k], a)], HasDwell)

\* get_hesitation_zones(processed_data, top_n): the lists it can return
HesitationZones(r, n) ==
    IF Size(r.hesitation_map) = 0 THEN {<< >>}
    ELSE {ZonesOf(p, r.hesitation_map) :
            p \in TopIndices(Flatten(r.hesitation_map),
                             0..(Size(r.hesitation_map) - 1), n)}

--------------------------------------------------------------------------
(* _calculate_personality_traits of src/src/visualizer.py; speeds in      *)
(* hundredths of px/s                                                     *)

FastSpeed == 80000
BalancedSpeed == 40000
SteadyStd == 20000
MediumStd == 50000
QuickPerMille == 100
ThoughtfulPerMille == 50
HighBursts == 10
ModerateBursts == 5

\* stats.get(key, default)
Get(stats, key, default) == IF key \in DOMAIN stats THEN stats[key] ELSE default

\* a style that calls the threshold speed itself fast
StyleOfInclusive(avg_speed) ==
    IF avg_speed >= FastSpeed THEN "Fast & Direct"
    ELSE IF avg_speed > BalancedSpeed THEN "Balanced"
    ELSE "Deliberate"

StyleOf(avg_speed) ==
    IF avg_speed > FastSpeed THEN "Fast & Direct"
    ELSE IF avg_speed > BalancedSpeed THEN "Balanced"
    ELSE "Deliberate"

PrecisionOf(speed_std) ==
    IF speed_std < SteadyStd THEN "High (Steady)"
    ELSE IF speed_std < MediumStd THEN "Medium"
    ELSE "Variable"

\* click_ratio = clicks / events if events > 0 else 0, compared with a
\* threshold given in thousandths: clicks / events > m / 1000
RatioAbove(clicks, events, m) ==
    IF events > 0 THEN 1000 * clicks > m * events ELSE 0 > m

DecisivenessOf(clicks, events) ==
    IF RatioAbove(clicks, events, QuickPerMille) THEN "Quick Decider"
    ELSE IF RatioAbove(clicks, events, ThoughtfulPerMille) THEN "Thoughtful"
    ELSE "Observer"

EnergyOf(bursts) ==
    IF bursts > HighBursts THEN "High Energy"
    ELSE IF bursts > ModerateBursts THEN "Moderate"
    ELSE "Calm"

CalculatePersonalityTraits(stats) ==
    [style |-> StyleOf(Get(stats, "avg_speed", 0)),
     precision |-> PrecisionOf(Get(stats, "speed_std", 0)),
     decisiveness |-> DecisivenessOf(Get(stats, "total_clicks", 0),
                                     Get(stats, "total_events", 1)),
     energy |-> EnergyOf(Get(stats, "acceleration_bursts", 0))]

--------------------------------------------------------------------------
(* The aggregator applied to the streams it can be handed *)

\* events of a stream handed to process_data
MaxStream == 3
\* top_n of get_hesitation_zones
MaxTopN == 3

\* cell sizes: several cells each way, a size that does not divide the
\* extent, and one cell for everything
GridSizes == {200, 300, 500}

StreamPoints == {<<300, 400>>, <<-300, -400>>}
\* a slow event and one that is fast by more than the acceleration threshold
StreamSpeeds == {HesitationSpeed - 1, HesitationSpeed + AccelerationThreshold}
StreamGaps == {0, SampleRate}

\* the streams of at most n events that continue after an event at time t
RECURSIVE StreamsAfter(_, _)
StreamsAfter(t, n) ==
    IF n = 0 THEN {<< >>}
    ELSE {<< >>} \cup
         UNION {{<<[x |-> p[1], y |-> p[2], speed |-> s, click |-> c,
                    timestamp |-> t + gap]>> \o rest :
                   rest \in StreamsAfter(t + gap, n - 1)} :
                <<p, s, c, gap>> \in
                    StreamPoints \X StreamSpeeds \X BOOLEAN \X StreamGaps}

\* event lists of at most n events in time order, the first event at
\* StartTime
Streams(n) ==
    IF n = 0 THEN {<< >>}
    ELSE {<< >>} \cup
         UNION {{<<[x |-> p[1], y |-> p[2], speed |-> s, click |-> c,
                    timestamp |-> StartTime]>> \o rest :
                   rest \in StreamsAfter(StartTime, n - 1)} :
                <<p, s, c>> \in StreamPoints \X StreamSpeeds \X BOOLEAN}

\* a stream and a cell size are handed to the aggregator
InitAgg ==
    /\ InitLogger
    /\ \E d \in Streams(MaxStream), g \in GridSizes :
          agg = [NoAgg EXCEPT !.stage = "input", !.data = d, !.grid_size = g]

\* result = process_data(data, grid_size)
ProcessDataCall ==
    /\ agg.stage = "input"
    /\ agg' = [agg EXCEPT !.stage = "processed",
                          !.result = <<ProcessData(agg.data, agg.grid_size)>>]
    /\ UNCHANGED <<now, data, is_running, listener, timing, lst, cb, cpc, snap,
                   snapTaken, last, calls, taken, late, session, origin>>

\* zones = get_hesitation_zones(result, top_n)
GetHesitationZones ==
    /\ agg.stage = "processed"
    /\ \E n \in 0..MaxTopN :
       \E zones \in HesitationZones(agg.result[1], n) :
          agg' = [agg EXCEPT !.stage = "zones", !.top_n = n, !.zones = <<zones>>]
    /\ UNCHANGED <<now, data, is_running, listener, timing, lst, cb, cpc, snap,
                   snapTaken, last, calls, taken, late, session, origin>>

NextAgg ==
    \/ ProcessDataCall
    \/ GetHesitationZones

SpecAgg == InitAgg /\ [][NextAgg]_vars

--------------------------------------------------------------------------
(* The classifier applied to the stats records it can be handed *)

\* values on both sides of each threshold and on it
AvgSpeeds == {0, BalancedSpeed, BalancedSpeed + 1, FastSpeed, FastSpeed + 1}
SpeedStds == {0, SteadyStd - 1, SteadyStd, MediumStd - 1, MediumStd}
ClickCounts == {0, 1, 2, 3}
EventCounts == {0, 10, 20, 25}
BurstCounts == {0, ModerateBursts, ModerateBursts + 1, HighBursts, HighBursts + 1}

StatsRecords ==
    [avg_speed : AvgSpeeds, speed_std : SpeedStds, total_clicks : ClickCounts,
     total_events : EventCounts, acceleration_bursts : BurstCounts]

InitTraits == InitLogger /\ agg = NoAgg

\* traits = _calculate_personality_traits(stats, speeds)
Classify ==
    /\ agg.stage = "idle"
    /\ \E stats \in StatsRecords :
          agg' = [agg EXCEPT !.stage = "traits", !.stats = <<stats>>,
                             !.traits = <<CalculatePersonalityTraits(stats)>>]
    /\ UNCHANGED <<now, data, is_running, listener, timing, lst, cb, cpc, snap,
                   snapTaken, last, calls, taken, late, session, origin>>

NextTraits == Classify

SpecTraits == InitTraits /\ [][NextTraits]_vars

--------------------------------------------------------------------------
(* Properties of the aggregator *)

\* the sum of the items of a 2-D array
Total(a) == SeqSum([i \in 1..Size(a) |-> Flatten(a)[i - 1]])

(* C11: density conservation: for a non-empty stream and any cell size,   *)
(* process_data puts each event in one cell whose index lies in           *)
(* [0, rows - 1] x [0, columns - 1], and the heatmap cells sum to the      *)
(* number of events.                                                       *)
C11_DensityConservation ==
    (agg.result # << >> /\ agg.data # << >>)
        => LET d == agg.data
               g == agg.grid_size
               heatmap == agg.result[1].heatmap
           IN  /\ \A k \in 1..Len(d) :
                     /\ CellOf(d[k], d, g)[1] \in 0..(heatmap.shape[1] - 1)
                     /\ CellOf(d[k], d, g)[2] \in 0..(heatmap.shape[2] - 1)
                     /\ heatmap.at[CellOf(d[k], d, g)] >= 1
               /\ Total(heatmap) = Len(d)

\* three events in more than one cell, one of them left of the grid's origin
C11_Witness ==
    /\ agg.result # << >>
    /\ Len(agg.data) = 3
    /\ \E k \in 1..Len(agg.data) : agg.data[k].x < 0
    /\ Size(agg.result[1].heatmap) > 1
    /\ \E c \in DOMAIN agg.result[1].heatmap.at : agg.result[1].heatmap.at[c] = 2

--------------------------------------------------------------------------
(* Properties of what the aggregator computes from the logger's buffer *)

\* process_data(data, grid_size=50)
DefaultGridSize == 50

(* C12: every cell of the hesitation map process_data computes from the   *)
(* events the logger holds is >= 0.                                       *)
C12_HesitationNonNegative ==
    data # << >>
        => LET hesitation_map == ProcessData(data, DefaultGridSize).hesitation_map
           IN  \A c \in DOMAIN hesitation_map.at : hesitation_map.at[c] >= 0


(* C13: hesitation dwell never crosses a session boundary: no pair of     *)
(* consecutive events of the buffer that were recorded by the listeners   *)
(* of two different start() calls adds dwell to the hesitation map        *)
(* (stated for the runs in which every stop() found its listener between  *)
(* two callbacks).                                                        *)
C13_NoDwellAcrossSessions ==
    ~late => \A k \in 2..Len(data) :
                origin[k] # origin[k - 1] => DwellAdded(data, k) = 0

--------------------------------------------------------------------------
(* Properties of get_hesitation_zones *)

\* the cells of a 2-D array whose item is not 0
NonZeroCells(a) == {c \in DOMAIN a.at : a.at[c] # 0}

(* C14: get_hesitation_zones(result, n) returns at most n entries, in     *)
(* descending order of dwell, none with dwell 0, each the (gridX, gridY,  *)
(* dwell) of a cell of the hesitation map (no cell twice); it returns as  *)
(* many entries as there are non-zero cells when these are fewer than n,  *)
(* and the empty list for a grid of size 0.                               *)
C14_HesitationZones ==
    agg.zones # << >>
        => LET zones == agg.zones[1]
               n == agg.top_n
               hesitation_map == agg.result[1].hesitation_map
               nonzero == Cardinality(NonZeroCells(hesitation_map))
           IN  /\ Len(zones) <= n
               /\ \A k \in 1..(Len(zones) - 1) : zones[k][3] >= zones[k + 1][3]
               /\ \A k \in 1..Len(zones) :
                     /\ zones[k][3] # 0
                     /\ <<zones[k][2], zones[k][1]>> \in DOMAIN hesitation_map.at
                     /\ hesitation_map.at[<<zones[k][2], zones[k][1]>>] = zones[k][3]
               /\ \A j, k \in 1..Len(zones) :
                     (zones[j][1] = zones[k][1] /\ zones[j][2] = zones[k][2]) => j = k
               /\ nonzero < n => Len(zones) = nonzero
               /\ nonzero >= n => Len(zones) = n
               /\ Size(hesitation_map) = 0 => zones = << >>

\* two cells hold dwell and three zones were asked for
C14_Witness ==
    /\ agg.zones # << >>
    /\ agg.top_n = 3
    /\ Len(agg.zones[1]) = 2
    /\ Size(agg.result[1].hesitation_map) > 2


(* C15: degenerate input is not an error.  On the empty stream            *)
(* process_data yields totalEvents = 0, avgSpeed = 0, duration = 0,       *)
(* grids of size 0, empty lists and the bounds (0, 0, 1920, 1080); on a   *)
(* stream of one event it yields duration = 0, distanceTraveled = 0,      *)
(* accelerationBursts = 0 and a hesitation map that is 0 everywhere.      *)
C15_DegenerateInput ==
    agg.result # << >>
        => LET r == agg.result[1]
           IN  /\ Len(agg.data) = 0
                     => /\ r.stats.total_events = 0
                        /\ r.stats.avg_speed = 0
                        /\ r.stats.duration = 0
                        /\ Size(r.heatmap) = 0
                        /\ Size(r.hesitation_map) = 0
                        /\ r.click_points = << >>
                        /\ r.path_points = << >>
                        /\ r.bounds = <<0, 0, 1920, 1080>>
               /\ Len(agg.data) = 1
                     => /\ r.stats.total_events = 1
                        /\ r.stats.duration = 0
                        /\ r.stats.total_distance = 0
                        /\ r.stats.acceleration_bursts = 0
                        /\ Size(r.hesitation_map) >= 1
                        /\ NonZeroCells(r.hesitation_map) = {}

\* a single slow click has been processed
C15_Witness ==
    /\ agg.result # << >>
    /\ Len(agg.data) = 1
    /\ agg.data[1].click
    /\ agg.data[1].speed < HesitationSpeed
    /\ agg.result[1].stats.total_clicks = 1

--------------------------------------------------------------------------
(* Properties of the classifier; speeds in hundredths of px/s *)

(* C16: classification is total and follows the fixed thresholds: every   *)
(* stats record gets one label per category; style is fast/direct iff     *)
(* avgSpeed > 800, balanced iff 400 < avgSpeed <= 800, else deliberate;   *)
(* precision is high iff speedStd < 200, medium iff 200 <= speedStd <     *)
(* 500, else variable; decisiveness follows clicks / totalEvents (> 0.1   *)
(* quick, > 0.05 thoughtful, else observer), the ratio being 0 when       *)
(* totalEvents = 0; energy is high iff bursts > 10, moderate iff          *)
(* 5 < bursts <= 10, else calm.                                           *)
C16_Classification ==
    agg.traits # << >>
        => LET s == agg.stats[1]
               t == agg.traits[1]
               quick == s.total_events # 0 /\ 10 * s.total_clicks > s.total_events
               thoughtful == s.total_events # 0 /\ 20 * s.total_clicks > s.total_events
           IN  /\ DOMAIN t = {"style", "precision", "decisiveness", "energy"}
               /\ t.style \in {"Fast & Direct", "Balanced", "Deliberate"}
               /\ t.precision \in {"High (Steady)", "Medium", "Variable"}
               /\ t.decisiveness \in {"Quick Decider", "Thoughtful", "Observer"}
               /\ t.energy \in {"High Energy", "Moderate", "Calm"}
               /\ t.style = "Fast & Direct" <=> s.avg_speed > 80000
               /\ t.style = "Balanced" <=> (40000 < s.avg_speed /\ s.avg_speed <= 80000)
               /\ t.precision = "High (Steady)" <=> s.speed_std < 20000
               /\ t.precision = "Medium" <=> (20000 <= s.speed_std /\ s.speed_std < 50000)
               /\ t.decisiveness = "Quick Decider" <=> quick
               /\ t.decisiveness = "Thoughtful" <=> (~quick /\ thoughtful)
               /\ t.energy = "High Energy" <=> s.acceleration_bursts > 10
               /\ t.energy = "Moderate"
                     <=> (5 < s.acceleration_bursts /\ s.acceleration_bursts <= 10)

\* a record on the style threshold with no events has been classified
C16_Witness ==
    /\ agg.traits # << >>
    /\ agg.stats[1].avg_speed = 80000
    /\ agg.stats[1].total_events = 0
    /\ agg.stats[1].total_clicks > 0
    /\ agg.traits[1].style = "Balanced"
    /\ agg.traits[1].decisiveness = "Observer"

--------------------------------------------------------------------------
(***************************************************************************)
(* One listening session of the MouseLogger with nothing else running:    *)
(* start() has returned, the consumer makes no other call, and the one    *)
(* listener thread runs each callback from its first statement to its     *)
(* last.                                                                  *)
(***************************************************************************)

\* notifications the session accepts
MaxSessionEvents == 3

\* a callback that ends with self._last_sample_time = current_time whether
\* it handled a move or a click
NextSampleTimeOfAny(click, t) == t

\* _last_sample_time when the callback returns: _on_move sets it to the
\* time it read, _on_click has no such statement
NextSampleTime(click, t) == IF click THEN last_sample_time ELSE t

\* the state in which the first start() returns
InitListening ==
    /\ now = StartTime
    /\ data = << >>
    /\ is_running = TRUE
    /\ listener = 1
    /\ last_sample_time = 0
    /\ last_position = <<0, 0>>
    /\ last_timestamp = 0
    /\ lst = [i \in Listeners |-> IF i = 1 THEN "running" ELSE "none"]
    /\ cb = [i \in Listeners |-> IdleCb]
    /\ cpc = "idle"
    /\ snap = [alias |-> FALSE, val |-> << >>]
    /\ snapTaken = << >>
    /\ last = "start"
    /\ calls = 1
    /\ taken = 0
    /\ late = FALSE
    /\ session = [i \in Listeners |-> IF i = 1 THEN 1 ELSE 0]
    /\ origin = << >>
    /\ agg = NoAgg

\* the statements of a callback after its guard: the speed, the event, the
\* append and the timing state
Record(click, p) ==
    LET c == [pc |-> "append", click |-> click, pos |-> p, t |-> now,
              speed |-> CalculateSpeed(p, now, last_timestamp, last_position)]
    IN  /\ taken < MaxSessionEvents
        /\ taken' = taken + 1
        /\ data' = Append(data, Event(c))
        /\ origin' = Append(origin, session[listener])
        /\ last_position' = p
        /\ last_timestamp' = now
        /\ last_sample_time' = NextSampleTime(click, now)

\* _on_move(x, y)
MoveCallback ==
    /\ CanDeliver(listener)
    /\ \E p \in Points :
          IF RateLimited(now)
          THEN /\ last' = "move_dropped"
               /\ UNCHANGED <<data, origin, timing, taken>>
          ELSE /\ Record(FALSE, p)
               /\ last' = "move_taken"
    /\ UNCHANGED <<now, is_running, listener, lst, cb, cpc, snap, snapTaken,
                   calls, late, session, agg>>

\* _on_click(x, y, button, pressed)
ClickCallback ==
    /\ CanDeliver(listener)
    /\ \E p \in Points, pressed \in BOOLEAN :
          IF ClickIgnored(pressed)
          THEN /\ last' = IF pressed THEN "press_ignored" ELSE "release_ignored"
               /\ UNCHANGED <<data, origin, timing, taken>>
          ELSE /\ Record(TRUE, p)
               /\ last' = IF pressed THEN "press_taken" ELSE "release_taken"
    /\ UNCHANGED <<now, is_running, listener, lst, cb, cpc, snap, snapTaken,
                   calls, late, session, agg>>

NextListening ==
    \/ Tick
    \/ MoveCallback
    \/ ClickCallback

SpecListening == InitListening /\ [][NextListening]_vars

\* the buffer holds a move accepted less than one sample interval ago
RecentMove ==
    \E k \in 1..Len(data) :
        ~data[k].click /\ now - data[k].timestamp < SampleRate

(* C17: a click does not suppress the next move sample.  Handling a press *)
(* sets last position and last timestamp to the click's and leaves the    *)
(* last-sample time unchanged; a move is dropped only when a move was     *)
(* accepted less than one sample interval before it, however recent the   *)
(* last click; and the speed of a move accepted right after a click is    *)
(* computed against the click's position and timestamp.                   *)
C17_ClickDoesNotSuppressMove ==
    /\ [][(last' = "press_taken" /\ taken' = taken + 1)
            => /\ last_sample_time' = last_sample_time
               /\ last_position' = <<data'[Len(data')].x, data'[Len(data')].y>>
               /\ last_timestamp' = data'[Len(data')].timestamp
               /\ data'[Len(data')].click]_vars
    /\ [](RateLimited(now) => RecentMove)
    /\ [][(last' = "move_taken" /\ taken' = taken + 1 /\ Len(data) > 0
             /\ data[Len(data)].click)
            => LET c == data[Len(data)]
                   m == data'[Len(data')]
               IN  IF m.timestamp - c.timestamp > 0
                   THEN IsSpeedOf(m.speed, <<c.x, c.y>>, <<m.x, m.y>>,
                                  m.timestamp - c.timestamp)
                   ELSE m.speed = 0]_vars

\* a move, a click 0.01 s later, and a move 0.05 s after the first move,
\* whose speed is the distance from the click over 0.04 s
C17_Witness ==
    /\ Len(data) = 3
    /\ ~data[1].click /\ data[2].click /\ ~data[3].click
    /\ data[2].timestamp - data[1].timestamp = 1
    /\ data[3].timestamp - data[1].timestamp = SampleRate
    /\ <<data[2].x, data[2].y>> # <<data[3].x, data[3].y>>
    /\ data[3].speed = 1250000

--------------------------------------------------------------------------
(* Order of the zones *)

\* the flattened (row by row) index of the cell of a zone
FlatIndex(z, a) == z[2] * a.shape[2] + z[1]

(* C18: tie-breaking in get_hesitation_zones: among cells with equal      *)
(* non-zero dwell the one with the lower flattened index comes first in   *)
(* the output, and when a tie straddles the top-n cut the cells with the  *)
(* lower index are the ones kept.                                         *)
C18_TiesByLowerIndex ==
    agg.zones # << >>
        => LET zones == agg.zones[1]
               a == agg.result[1].hesitation_map
           IN  /\ \A j, k \in 1..Len(zones) :
                     (j < k /\ zones[j][3] = zones[k][3])
                         => FlatIndex(zones[j], a) < FlatIndex(zones[k], a)
               /\ \A k \in 1..Len(zones) : \A c \in DOMAIN a.at :
                     (a.at[c] = zones[k][3]
                        /\ c[1] * a.shape[2] + c[2] < FlatIndex(zones[k], a))
                         => \E j \in 1..Len(zones) : <<zones[j][2], zones[j][1]>> = c

--------------------------------------------------------------------------
(* clear_data() and the callbacks *)

(* C19: clear_data() racing with a callback of the listener thread: once  *)
(* clear_data() has returned, an event at index 0 of the buffer has speed *)
(* 0: its speed was not computed against a sample that clear_data()       *)
(* removed (stated for the states in which no notification has arrived    *)
(* since that return, in runs in which every stop() found its listener    *)
(* between two callbacks).                                                *)
C19_ClearRace ==
    (~late /\ last = "clear" /\ cpc = "idle" /\ Len(data) > 0)
        => data[1].speed = 0

====
